---- MODULE Spec2Model ----
(***************************************************************************)
(* TS3D: column-major matrices over Float32Array views, the unrolled 4x4   *)
(* kernels, the elemental rotation builders and the pinhole Camera.        *)
(*                                                                         *)
(* Numbers.  A JavaScript number is modelled as an exact extended          *)
(* rational <<n, d>> in lowest terms with d >= 0: <<n, 1>> is the integer  *)
(* n, <<1, 0>> is Infinity, <<-1, 0>> is -Infinity and <<0, 0>> is NaN.    *)
(* Rounding to 32 or 64 bits is not modelled, and -0 is identified with 0  *)
(* (so x / -0 is Infinity here where IEEE gives -Infinity).                *)
(*                                                                         *)
(* Memory.  A heap maps a buffer name to its elements (0-based); a Matrix  *)
(* is a view [buf, off, rows, cols] over rows*cols elements of a buffer    *)
(* starting at element off.  The kernels read and write the heap one       *)
(* element at a time in the order of the source, so that what an           *)
(* overlapping operand and destination do to each other is computed, not   *)
(* assumed.                                                                *)
(***************************************************************************)
EXTENDS Integers, Sequences, FiniteSets, TLC

VARIABLES
    swp, inv_rot, inv_tra, camera_transform,   \* Camera's four Matrix4x4 buffers
    res_x, res_y, max_px, max_view_angle_rad,  \* Camera's sensor fields
    px_density, aspect_ratio, e_z,
    heap,                                       \* buffers owned by the caller
    last,                                       \* the last call: operation, arguments, outcome
    nops                                        \* number of calls made so far

vars == <<swp, inv_rot, inv_tra, camera_transform, res_x, res_y, max_px,
          max_view_angle_rad, px_density, aspect_ratio, e_z, heap, last, nops>>

camvars == <<swp, inv_rot, inv_tra, camera_transform, res_x, res_y, max_px,
             max_view_angle_rad, px_density, aspect_ratio, e_z>>

----------------------------------------------------------------------------
(* Bounds *)

\* calls per behaviour of the Camera specification
MaxOps == 3
\* calls per behaviour of the kernel specification
MaxCalls == 1
\* most columns of a 4xN operand handed to the kernels
MaxCols == 5
\* calls per behaviour of the transpose specification
MaxTransposes == 2
\* columns of the point batches handed to capture and perspective_project
NPts == 2

----------------------------------------------------------------------------
(* Number arithmetic *)

Abs(n) == IF n < 0 THEN -n ELSE n

Sgn(n) == IF n > 0 THEN 1 ELSE IF n < 0 THEN -1 ELSE 0

RECURSIVE GCD(_, _)
GCD(a, b) == IF b = 0 THEN a ELSE GCD(b, a % b)

Norm(n, d) ==
    IF d = 0 THEN <<Sgn(n), 0>>
    ELSE LET g == GCD(Abs(n), Abs(d))
             s == Sgn(d)
         IN  <<(s * n) \div g, (s * d) \div g>>

FromInt(n) == <<n, 1>>

NaN == <<0, 0>>

Infinity == <<1, 0>>

\* an uninitialised number field; every arithmetic use coerces it to NaN
undefined == NaN

Half == <<1, 2>>

Neg(x) == <<-x[1], x[2]>>

Mul(x, y) == Norm(x[1] * y[1], x[2] * y[2])

Add(x, y) ==
    IF x[2] = 0 /\ y[2] = 0 THEN (IF x = y THEN x ELSE NaN)
    ELSE IF x[2] = 0 THEN x
    ELSE IF y[2] = 0 THEN y
    ELSE Norm(x[1] * y[2] + y[1] * x[2], x[2] * y[2])

Recip(y) == IF y = <<0, 1>> THEN Infinity ELSE Norm(y[2] * Sgn(y[1]), Abs(y[1]))

Div(x, y) == Mul(x, Recip(y))

\* x > y; false when either is NaN
Gt(x, y) == x # NaN /\ y # NaN /\ x # y /\
            (IF x[2] = 0 THEN x[1] > 0
             ELSE IF y[2] = 0 THEN y[1] < 0
             ELSE x[1] * y[2] > y[1] * x[2])

\* the integer whose square is n (the inputs are chosen so that every root is exact)
ISqrt(n) == CHOOSE r \in 0..n : r * r = n

\* Math.sqrt
Sqrt(x) ==
    IF x[2] = 0 THEN (IF x = Infinity THEN Infinity ELSE NaN)
    ELSE IF x[1] < 0 THEN NaN
    ELSE <<ISqrt(x[1]), ISqrt(x[2])>>

\* Math.hypot(x, y, z)
Hypot(x, y, z) ==
    IF \E w \in {x, y, z} : w[2] = 0 /\ w # NaN THEN Infinity
    ELSE Sqrt(Add(Add(Mul(x, x), Mul(y, y)), Mul(z, z)))

\* Math.cos(Math.acos(x)): x itself for x in [-1, 1], NaN otherwise
CosAcos(x) ==
    IF x = NaN \/ Gt(x, FromInt(1)) \/ Gt(FromInt(-1), x) THEN NaN ELSE x

\* Math.sin(Math.acos(x)): acos gives an angle in [0, pi], whose sine is sqrt(1 - x^2)
SinAcos(x) ==
    IF CosAcos(x) = NaN THEN NaN ELSE Sqrt(Add(FromInt(1), Neg(Mul(x, x))))

\* Math.max
Max(x, y) == IF x = NaN \/ y = NaN THEN NaN ELSE IF Gt(y, x) THEN y ELSE x

----------------------------------------------------------------------------
(* Matrix views over a heap *)

\* F(x), with x evaluated once however often F uses it
Bind(x, F(_)) == CHOOSE r \in {F(v) : v \in {x}} : TRUE

Zeros(len) == [i \in 0..(len - 1) |-> FromInt(0)]

\* new Matrix(rows, cols) and its subclasses: a view, given or over a new buffer
Matrix(buf, off, rows, cols) == [buf |-> buf, off |-> off, rows |-> rows, cols |-> cols]

\* an optional Matrix argument that was not passed
NoMatrix == Matrix("undefined", 0, 0, 0)

\* arr.length
length(M) == M.rows * M.cols

\* A heap with the buffer of a newly constructed matrix added (all zero).
New(m, buf, len) == (buf :> Zeros(len)) @@ m

\* M.arr[i]; a typed array reads undefined outside its length
Rd(m, M, i) == IF i \in 0..(length(M) - 1) THEN m[M.buf][M.off + i] ELSE undefined

\* M.arr[i] = x; a typed array ignores a write outside its length
Wr(m, M, i, x) ==
    IF i \in 0..(length(M) - 1) THEN [m EXCEPT ![M.buf][M.off + i] = x] ELSE m

\* the elements of M as a 0-based array
Arr(m, M) == [i \in 0..(length(M) - 1) |-> m[M.buf][M.off + i]]

same_view(A, B) == A.buf = B.buf /\ A.off * 4 = B.off * 4 /\ length(A) * 4 = length(B) * 4

RECURSIVE set_all_loop(_, _, _, _)
set_all_loop(m, M, vals, i) ==
    IF i < length(M) /\ i \in DOMAIN vals
    THEN set_all_loop(Wr(m, M, i, vals[i]), M, vals, i + 1)
    ELSE m

\* Matrix.set_all: [err, mem]
set_all(m, M, vals0) ==
    Bind(vals0, LAMBDA vals :
        IF Cardinality(DOMAIN vals) # M.rows * M.cols
        THEN [err |-> "length", mem |-> m]
        ELSE [err |-> "none", mem |-> set_all_loop(m, M, vals, 0)])

I4x4 == [i \in 0..15 |-> IF i \in {0, 5, 10, 15} THEN FromInt(1) ELSE FromInt(0)]

\* getI4x4(view): overwrites the 16 elements of the view with the identity
getI4x4(m, M) == set_all(m, M, I4x4).mem

----------------------------------------------------------------------------
(* Rotation builders.  An angle is a whole number of quarter turns, for    *)
(* which Math.cos and Math.sin are taken at their exact values.            *)

cos(q) == FromInt(CASE q % 4 = 0 -> 1 [] q % 4 = 1 -> 0 [] q % 4 = 2 -> -1 [] OTHER -> 0)

sin(q) == FromInt(CASE q % 4 = 0 -> 0 [] q % 4 = 1 -> 1 [] q % 4 = 2 -> 0 [] OTHER -> -1)

\* out.arr[0] = v[0]; ... out.arr[15] = v[15], in this order
RECURSIVE WrSeq(_, _, _, _)
WrSeq(m, M, v, i) == IF i > 15 THEN m ELSE WrSeq(Wr(m, M, i, v[i + 1]), M, v, i + 1)

\* the body of get_rot_x for c = Math.cos(rad) and s = Math.sin(rad)
rot_x(c, s, m, out) ==
    LET o == FromInt(0)
        l == FromInt(1)
        v == <<l, o, o, o,  o, c, s, o,  o, Neg(s), c, o,  o, o, o, l>>
    IN  Bind(v, LAMBDA w : WrSeq(m, out, w, 0))

get_rot_x(rad, m, out) == rot_x(cos(rad), sin(rad), m, out)

\* get_rot_y with s in both off-diagonal elements
rot_y_mirrored(c, s, m, out) ==
    LET o == FromInt(0)
        l == FromInt(1)
        v == <<c, o, s, o,  o, l, o, o,  s, o, c, o,  o, o, o, l>>
    IN  Bind(v, LAMBDA w : WrSeq(m, out, w, 0))

\* the body of get_rot_y for c = Math.cos(rad) and s = Math.sin(rad)
rot_y(c, s, m, out) ==
    LET o == FromInt(0)
        l == FromInt(1)
        v == <<c, o, Neg(s), o,  o, l, o, o,  s, o, c, o,  o, o, o, l>>
    IN  Bind(v, LAMBDA w : WrSeq(m, out, w, 0))

get_rot_y(rad, m, out) == rot_y(cos(rad), sin(rad), m, out)

\* get_rot_z with the sign of out.arr[4] lost.
get_rot_z_unsigned(rad, m, out) ==
    LET c == cos(rad)
        s == sin(rad)
        o == FromInt(0)
        l == FromInt(1)
        v == <<c, s, o, o,  s, c, o, o,  o, o, l, o,  o, o, o, l>>
    IN  Bind(v, LAMBDA w : WrSeq(m, out, w, 0))

get_rot_z(rad, m, out) ==
    LET c == cos(rad)
        s == sin(rad)
        o == FromInt(0)
        l == FromInt(1)
        v == <<c, s, o, o,  Neg(s), c, o, o,  o, o, l, o,  o, o, o, l>>
    IN  Bind(v, LAMBDA w : WrSeq(m, out, w, 0))

----------------------------------------------------------------------------
(* The unrolled kernels *)

\* The dot product taken along a column of A instead of a row.
Dot4Transposed(m, A, B, r, o) ==
    Add(Add(Add(Mul(Rd(m, A, 4 * r), Rd(m, B, o)),
                Mul(Rd(m, A, 4 * r + 1), Rd(m, B, o + 1))),
            Mul(Rd(m, A, 4 * r + 2), Rd(m, B, o + 2))),
        Mul(Rd(m, A, 4 * r + 3), Rd(m, B, o + 3)))

\* A.arr[r]*B.arr[o] + A.arr[r+4]*B.arr[o+1] + A.arr[r+8]*B.arr[o+2] + A.arr[r+12]*B.arr[o+3]
Dot4(m, A, B, r, o) ==
    Add(Add(Add(Mul(Rd(m, A, r), Rd(m, B, o)),
                Mul(Rd(m, A, r + 4), Rd(m, B, o + 1))),
            Mul(Rd(m, A, r + 8), Rd(m, B, o + 2))),
        Mul(Rd(m, A, r + 12), Rd(m, B, o + 3)))

\* A column computed straight into C, one row after the other, with no swap vector.
ColumnNoSwp(m, A, B, C, o) ==
    Bind(m, LAMBDA h :
    Bind(Wr(h, C, o, Dot4(h, A, B, 0, o)), LAMBDA h0 :
    Bind(Wr(h0, C, o + 1, Dot4(h0, A, B, 1, o)), LAMBDA h1 :
    Bind(Wr(h1, C, o + 2, Dot4(h1, A, B, 2, o)), LAMBDA h2 :
         Wr(h2, C, o + 3, Dot4(h2, A, B, 3, o))))))

\* One column: the four dot products go to swp, then swp is copied to C.
Column(m, A, B, C, o) ==
    Bind(m, LAMBDA h :
        LET swp0 == Dot4(h, A, B, 0, o)
            swp1 == Dot4(h, A, B, 1, o)
            swp2 == Dot4(h, A, B, 2, o)
            swp3 == Dot4(h, A, B, 3, o)
        IN  Wr(Wr(Wr(Wr(h, C, o, swp0), C, o + 1, swp1), C, o + 2, swp2), C, o + 3, swp3))

\* typeof C === 'undefined': C = new Matrix4xN(cols); the matrix, and the heap with it
Default(C, cols) == IF C = NoMatrix THEN Matrix("new", 0, 4, cols) ELSE C

DefaultMem(m, C, cols) == IF C = NoMatrix THEN New(m, "new", 4 * cols) ELSE m

\* multiply4x4_4x4 with the aliasing check made after the columns are written.
multiply4x4_4x4_late_check(m, A, B, C0) ==
    LET C == Default(C0, 4)
        m0 == DefaultMem(m, C0, 4)
        m1 == Column(Column(Column(Column(m0, A, B, C, 0), A, B, C, 4), A, B, C, 8),
                     A, B, C, 12)
    IN  IF same_view(A, C)
        THEN [err |-> "alias", mem |-> m1, ret |-> NoMatrix]
        ELSE [err |-> "none", mem |-> m1, ret |-> C]

\* multiply4x4_4x4(A, B, C?): [err, mem, ret]
multiply4x4_4x4(m, A, B, C0) ==
    LET C == Default(C0, 4)
        m0 == DefaultMem(m, C0, 4)
    IN  IF same_view(A, C)
        THEN [err |-> "alias", mem |-> m0, ret |-> NoMatrix]
        ELSE [err |-> "none",
              mem |-> Column(Column(Column(Column(m0, A, B, C, 0), A, B, C, 4), A, B, C, 8),
                             A, B, C, 12),
              ret |-> C]

\* multiply4x4_4x1(A, B, C?): [err, mem, ret]
multiply4x4_4x1(m, A, B, C0) ==
    LET C == Default(C0, 1)
        m0 == DefaultMem(m, C0, 1)
    IN  IF same_view(A, C)
        THEN [err |-> "alias", mem |-> m0, ret |-> NoMatrix]
        ELSE [err |-> "none", mem |-> Column(m0, A, B, C, 0), ret |-> C]

RECURSIVE Columns(_, _, _, _, _)
Columns(m, A, B, C, offset) ==
    IF offset < length(B) THEN Columns(Column(m, A, B, C, offset), A, B, C, offset + 4) ELSE m

\* multiply4x4_4xN with no comparison of the column counts.
multiply4x4_4xN_any_cols(m, A, B, C0) ==
    LET C == Default(C0, B.cols)
        m0 == DefaultMem(m, C0, B.cols)
    IN  IF same_view(A, C)
        THEN [err |-> "alias", mem |-> m0, ret |-> NoMatrix]
        ELSE [err |-> "none", mem |-> Columns(m0, A, B, C, 0), ret |-> C]

\* multiply4x4_4xN(A, B, C?): [err, mem, ret]
multiply4x4_4xN(m, A, B, C0) ==
    LET C == Default(C0, B.cols)
        m0 == DefaultMem(m, C0, B.cols)
    IN  IF same_view(A, C)
        THEN [err |-> "alias", mem |-> m0, ret |-> NoMatrix]
        ELSE IF B.cols # C.cols
        THEN [err |-> "cols", mem |-> m0, ret |-> NoMatrix]
        ELSE [err |-> "none", mem |-> Columns(m0, A, B, C, 0), ret |-> C]

----------------------------------------------------------------------------
(* The generic Matrix accessors and multiply *)

\* The range test with > where the source has >=.
OutOfRangeInclusive(M, row, col) == (row < 0) \/ (row > M.rows) \/ (col < 0) \/ (col > M.cols)

OutOfRange(M, row, col) == (row < 0) \/ (row >= M.rows) \/ (col < 0) \/ (col >= M.cols)

\* Matrix.get(row, col): [err, val]
get(m, M, row, col) ==
    IF OutOfRange(M, row, col)
    THEN [err |-> "range", val |-> undefined]
    ELSE [err |-> "none", val |-> Rd(m, M, row + col * M.rows)]

\* Matrix.set(row, col, val): [err, mem]
set(m, M, row, col, val) ==
    IF OutOfRange(M, row, col)
    THEN [err |-> "range", mem |-> m]
    ELSE [err |-> "none", mem |-> Wr(m, M, row + col * M.rows, val)]

\* the loop on k of multiply: swp += A.get(row, k) * B.get(k, col)
RECURSIVE Accumulate(_, _, _, _, _, _, _)
Accumulate(m, A, B, row, col, k, swp0) ==
    IF k < A.cols
    THEN Accumulate(m, A, B, row, col, k + 1,
                    Add(swp0, Mul(get(m, A, row, k).val, get(m, B, k, col).val)))
    ELSE swp0

\* the loops on row and col of multiply, from cell (row, col) on
RECURSIVE Cells(_, _, _, _, _, _)
Cells(m, A, B, C, row, col) ==
    IF row >= A.rows THEN m
    ELSE IF col >= B.cols THEN Cells(m, A, B, C, row + 1, 0)
    ELSE Bind(m, LAMBDA h :
             Cells(set(h, C, row, col, Accumulate(h, A, B, row, col, 0, FromInt(0))).mem,
                   A, B, C, row, col + 1))

\* multiply(A, B, C?): [err, mem, ret]
multiply(m, A, B, C0) ==
    LET C == IF C0 = NoMatrix THEN Matrix("new", 0, A.rows, B.cols) ELSE C0
        m0 == IF C0 = NoMatrix THEN New(m, "new", A.rows * B.cols) ELSE m
    IN  IF same_view(A, C) \/ same_view(B, C)
        THEN [err |-> "alias", mem |-> m0, ret |-> NoMatrix]
        ELSE IF A.cols # B.rows \/ A.rows # C.rows \/ B.cols # C.cols
        THEN [err |-> "dims", mem |-> m0, ret |-> NoMatrix]
        ELSE [err |-> "none", mem |-> Cells(m0, A, B, C, 0, 0), ret |-> C]

----------------------------------------------------------------------------
(* copy4x4, copy4x1, dot3, norm3 and get_rot_v *)

\* for (index = 0; index < src.arr.length; ++index) dst.arr[index] = src.arr[index]
RECURSIVE copy_loop(_, _, _, _)
copy_loop(m, src, dst, index) ==
    IF index < length(src)
    THEN copy_loop(Wr(m, dst, index, Rd(m, src, index)), src, dst, index + 1)
    ELSE m

\* copy4x4(src, dst?): [err, mem, ret]
copy4x4(m, src, dst0) ==
    [err |-> "none", mem |-> copy_loop(DefaultMem(m, dst0, 4), src, Default(dst0, 4), 0),
     ret |-> Default(dst0, 4)]

\* copy4x1(src, dst?): [err, mem, ret]
copy4x1(m, src, dst0) ==
    [err |-> "none", mem |-> copy_loop(DefaultMem(m, dst0, 1), src, Default(dst0, 1), 0),
     ret |-> Default(dst0, 1)]

dot3(m, A, B) ==
    Add(Add(Mul(Rd(m, A, 0), Rd(m, B, 0)), Mul(Rd(m, A, 1), Rd(m, B, 1))),
        Mul(Rd(m, A, 2), Rd(m, B, 2)))

\* A norm that is 1 where the norm is 0.
norm3_guarded(m, A) ==
    IF Hypot(Rd(m, A, 0), Rd(m, A, 1), Rd(m, A, 2)) = FromInt(0) THEN FromInt(1)
    ELSE Hypot(Rd(m, A, 0), Rd(m, A, 1), Rd(m, A, 2))

norm3(m, A) == Hypot(Rd(m, A, 0), Rd(m, A, 1), Rd(m, A, 2))

\* the matrices get_rot_v makes for itself, each over a buffer named after its variable
Local(name, cols) == Matrix(name, 0, 4, cols)

\* M.arr[i] = -1 * M.arr[i]
Negate(m, M, i) == Wr(m, M, i, Mul(FromInt(-1), Rd(m, M, i)))

\* get_rot_v, lines 353-357: v_unit = copy4x1(v), divided by vnorm
Normalise(m0, v) == Bind(copy4x1(New(m0, "v_unit", 4), v, Local("v_unit", 1)).mem, LAMBDA m :
    LET vnorm == norm3(m, v)
        u == Local("v_unit", 1)
    IN  Wr(Wr(Wr(m, u, 0, Div(Rd(m, u, 0), vnorm)), u, 1, Div(Rd(m, u, 1), vnorm)),
           u, 2, Div(Rd(m, u, 2), vnorm)))

\* lines 362-366: z_unit, and tmp_vec = copy of v_unit with its x set to 0
ProjectOnYZ(m0) ==
    Bind(("z_unit" :> [i \in 0..3 |-> FromInt(IF i = 2 THEN 1 ELSE 0)]) @@ m0, LAMBDA m :
        Wr(copy4x1(New(m, "tmp_vec", 4), Local("v_unit", 1), Local("tmp_vec", 1)).mem,
           Local("tmp_vec", 1), 0, FromInt(0)))

\* the argument of Math.acos at lines 369 and 383
AcosArg(m) == Div(dot3(m, Local("tmp_vec", 1), Local("z_unit", 1)), norm3(m, Local("tmp_vec", 1)))

\* lines 369-380: R_x = get_rot_x(theta_x), R_x_i its copy, two elements of R_x negated,
\* tmp_vec = R_x . v_unit
AboutX(m0) == Bind(m0, LAMBDA m :
    Bind(rot_x(CosAcos(AcosArg(m)), SinAcos(AcosArg(m)), New(m, "R_x", 16), Local("R_x", 4)),
         LAMBDA m1 :
    Bind(copy4x4(New(m1, "R_x_i", 16), Local("R_x", 4), Local("R_x_i", 4)).mem, LAMBDA m2 :
         multiply4x4_4x1(Negate(Negate(m2, Local("R_x", 4), 6), Local("R_x", 4), 9),
                         Local("R_x", 4), Local("v_unit", 1), Local("tmp_vec", 1)).mem)))

\* lines 383-390: R_y = get_rot_y(theta_y), R_y_i its copy with two elements negated
AboutY(m0) == Bind(m0, LAMBDA m :
    Bind(rot_y(CosAcos(AcosArg(m)), SinAcos(AcosArg(m)), New(m, "R_y", 16), Local("R_y", 4)),
         LAMBDA m1 :
    Bind(copy4x4(New(m1, "R_y_i", 16), Local("R_y", 4), Local("R_y_i", 4)).mem, LAMBDA m2 :
         Negate(Negate(m2, Local("R_y_i", 4), 2), Local("R_y_i", 4), 8))))

\* lines 394-406: cumulative = R_x_i . R_y_i . get_rot_z(radians) . R_y . R_x . I
Compose(radians, m0) ==
    LET cu == Local("cumulative", 4)
    IN  Bind(New(getI4x4(New(m0, "cumulative", 16), cu), "tmp_mat", 16), LAMBDA m :
        Bind(multiply4x4_4x4(m, Local("R_x", 4), cu, cu).mem, LAMBDA m1 :
        Bind(multiply4x4_4x4(m1, Local("R_y", 4), cu, cu).mem, LAMBDA m2 :
        Bind(get_rot_z(radians, New(m2, "R_z", 16), Local("R_z", 4)), LAMBDA m3 :
        Bind(multiply4x4_4x4(m3, Local("R_z", 4), cu, cu).mem, LAMBDA m4 :
        Bind(multiply4x4_4x4(m4, Local("R_y_i", 4), cu, cu).mem, LAMBDA m5 :
             multiply4x4_4x4(m5, Local("R_x_i", 4), cu, cu).mem))))))

\* get_rot_v(radians, v, C?): [err, mem, ret]; mem keeps the function's own matrices
get_rot_v(radians, v, m, C0) ==
    LET C == Default(C0, 4)
        m0 == DefaultMem(m, C0, 4)
    IN  Bind(Compose(radians, AboutY(AboutX(ProjectOnYZ(Normalise(m0, v))))), LAMBDA m1 :
            [err |-> "none", mem |-> copy4x4(m1, Local("cumulative", 4), C).mem, ret |-> C])

----------------------------------------------------------------------------
(* transpose4x4 *)

\* the index the transpose reads for element i: C.arr[1] = A.arr[4], C.arr[2] = A.arr[8], ...
Transposed(i) == 4 * (i % 4) + (i \div 4)

\* C.arr[0] = A.arr[0]; C.arr[1] = A.arr[4]; ... C.arr[15] = A.arr[15], in this order
RECURSIVE transpose_loop(_, _, _, _)
transpose_loop(m, A, C, i) ==
    IF i > 15 THEN m
    ELSE transpose_loop(Wr(m, C, i, Rd(m, A, Transposed(i))), A, C, i + 1)

\* A transpose that writes straight into its destination, also when that is A.
transpose4x4_no_swp(m, A, C) ==
    [err |-> "none", mem |-> transpose_loop(m, A, IF C = NoMatrix THEN A ELSE C, 0)]

\* transpose4x4(A, C?): [err, mem]; it returns nothing
transpose4x4(m, A, C) ==
    IF C = NoMatrix \/ same_view(A, C)
    THEN Bind(transpose_loop(New(m, "swp", 16), A, Local("swp", 4), 0), LAMBDA m1 :
             set_all(m1, A, Arr(m1, Local("swp", 4))))
    ELSE [err |-> "none", mem |-> transpose_loop(m, A, C, 0)]

----------------------------------------------------------------------------
(* Camera *)

Swp == Matrix("swp", 0, 4, 4)

InvRot == Matrix("inv_rot", 0, 4, 4)

InvTra == Matrix("inv_tra", 0, 4, 4)

CameraTransform == Matrix("camera_transform", 0, 4, 4)

\* the four matrices of the camera as a heap
CamHeap ==
    [b \in {"swp", "inv_rot", "inv_tra", "camera_transform"} |->
        CASE b = "swp" -> swp
          [] b = "inv_rot" -> inv_rot
          [] b = "inv_tra" -> inv_tra
          [] OTHER -> camera_transform]

\* the camera's matrices are what the heap m holds for them
StoreCam(mem) == \E m \in {mem} :
    /\ swp' = m["swp"]
    /\ inv_rot' = m["inv_rot"]
    /\ inv_tra' = m["inv_tra"]
    /\ camera_transform' = m["camera_transform"]

SensorUnchanged ==
    UNCHANGED <<res_x, res_y, max_px, max_view_angle_rad, px_density, aspect_ratio, e_z>>

\* set_pos that stores the position itself, not its negation.
set_pos_mem_not_negated(m, pos) ==
    Wr(Wr(Wr(Wr(m, InvTra, 12, pos[0]), InvTra, 13, pos[1]), InvTra, 14, pos[2]),
       InvTra, 15, FromInt(1))

\* Camera.set_pos(pos), on the heap: four writes to inv_tra.arr
set_pos_mem(m, pos) ==
    Wr(Wr(Wr(Wr(m, InvTra, 12, Neg(pos[0])), InvTra, 13, Neg(pos[1])),
          InvTra, 14, Neg(pos[2])), InvTra, 15, FromInt(1))

\* set_rot that composes onto the inv_rot it finds instead of starting from Rz(-zpp)
set_rot_mem_onto(m, x, yp, zpp) ==
    Bind(multiply4x4_4x4(get_rot_z(-zpp, m, Swp), Swp, InvRot, InvRot), LAMBDA r1 :
    Bind(multiply4x4_4x4(get_rot_y(-yp, r1.mem, Swp), Swp, InvRot, InvRot), LAMBDA r3 :
         multiply4x4_4x4(get_rot_x(-x, r3.mem, Swp), Swp, InvRot, InvRot)))

\* Camera.set_rot(x, yp, zpp), on the heap
set_rot_mem(m, x, yp, zpp) ==
    LET m1 == get_rot_z(-zpp, m, InvRot)
        m2 == get_rot_y(-yp, m1, Swp)
    IN  Bind(multiply4x4_4x4(m2, Swp, InvRot, InvRot), LAMBDA r3 :
            IF r3.err # "none" THEN r3
            ELSE multiply4x4_4x4(get_rot_x(-x, r3.mem, Swp), Swp, InvRot, InvRot))

\* Camera.update_cam_transform(), on the heap
update_cam_transform_mem(m) == multiply4x4_4x4(m, InvRot, InvTra, CameraTransform)

\* the switch of g_rot and l_rot: the elemental rotation goes to swp
get_rot(A, theta, m) ==
    CASE A = "X" -> get_rot_x(theta, m, Swp)
      [] A = "Y" -> get_rot_y(theta, m, Swp)
      [] A = "Z" -> get_rot_z(theta, m, Swp)
      [] OTHER -> m

\* g_rot that composes on the right
g_rot_mem_right(m, A, theta) ==
    Bind(multiply4x4_4x4(get_rot(A, theta, m), InvRot, Swp, Swp), LAMBDA r :
        set_all(r.mem, InvRot, Arr(r.mem, Swp)))

\* Camera.g_rot(A, theta), on the heap
g_rot_mem(m, A, theta) == multiply4x4_4x4(get_rot(A, theta, m), Swp, InvRot, InvRot)

\* l_rot that leaves the product in swp and never copies it to inv_rot
l_rot_mem_no_copy(m, A, theta) == multiply4x4_4x4(get_rot(A, theta, m), InvRot, Swp, Swp)

\* Camera.l_rot(A, theta), on the heap
l_rot_mem(m, A, theta) ==
    Bind(multiply4x4_4x4(get_rot(A, theta, m), InvRot, Swp, Swp), LAMBDA r :
        IF r.err # "none" THEN r ELSE set_all(r.mem, InvRot, Arr(r.mem, Swp)))

\* input.cols, the method itself: every Matrix has the one of the prototype
cols_method(M) == "Matrix.prototype.cols"

\* the loop body with res_x where the source has max_px
ProjectColumnResX(m, input, output, i) ==
    Bind(m, LAMBDA h :
    Bind(Rd(h, input, i), LAMBDA x :
    Bind(Rd(h, input, i + 1), LAMBDA y :
    Bind(Rd(h, input, i + 2), LAMBDA z :
    Bind(Div(e_z, z), LAMBDA rel_tri :
        LET m0 == Wr(h, output, i,
                     Add(Mul(Half, res_x), Mul(Mul(Mul(Half, res_x), rel_tri), x)))
            m1 == Wr(m0, output, i + 1,
                     Add(Mul(Half, res_y), Mul(Mul(Mul(Half, res_x), rel_tri), y)))
            m2 == Wr(m1, output, i + 2, rel_tri)
        IN  Wr(m2, output, i + 3, FromInt(1)))))))

\* one pass of the loop of perspective_project, at element i
ProjectColumn(m, input, output, i) ==
    Bind(m, LAMBDA h :
    Bind(Rd(h, input, i), LAMBDA x :
    Bind(Rd(h, input, i + 1), LAMBDA y :
    Bind(Rd(h, input, i + 2), LAMBDA z :
    Bind(Div(e_z, z), LAMBDA rel_tri :
        LET m0 == Wr(h, output, i,
                     Add(Mul(Half, res_x), Mul(Mul(Mul(Half, max_px), rel_tri), x)))
            m1 == Wr(m0, output, i + 1,
                     Add(Mul(Half, res_y), Mul(Mul(Mul(Half, max_px), rel_tri), y)))
            m2 == Wr(m1, output, i + 2, rel_tri)
        IN  Wr(m2, output, i + 3, FromInt(1)))))))

RECURSIVE ProjectLoop(_, _, _, _)
ProjectLoop(m, input, output, i) ==
    IF i < length(input)
    THEN ProjectLoop(ProjectColumn(m, input, output, i), input, output, i + 4)
    ELSE m

\* Camera.perspective_project(input, output?): [err, mem, ret]
perspective_project(m, input, output0) ==
    LET output == Default(output0, input.cols)
        m0 == DefaultMem(m, output0, input.cols)
    IN  IF cols_method(input) = cols_method(output)
        THEN [err |-> "none", mem |-> ProjectLoop(m0, input, output, 0), ret |-> output]
        ELSE [err |-> "none", mem |-> m0, ret |-> output]

\* capture that ignores relpos and transforms the points where they are
capture_onto_points(m, points, relpos0) ==
    Bind(multiply4x4_4xN(m, CameraTransform, points, points), LAMBDA r :
        IF r.err # "none" THEN r ELSE perspective_project(r.mem, points, points))

\* Camera.capture(points, relpos?): [err, mem, ret]
capture(m, points, relpos0) ==
    LET relpos == Default(relpos0, points.cols)
        m0 == DefaultMem(m, relpos0, points.cols)
    IN  Bind(multiply4x4_4xN(m0, CameraTransform, points, relpos), LAMBDA r :
            IF r.err # "none" THEN r ELSE perspective_project(r.mem, relpos, relpos))

----------------------------------------------------------------------------
(* Inputs of the Camera specification *)

\* an array of integers, 0-based
Vec(t) == [i \in 0..(Len(t) - 1) |-> FromInt(t[i + 1])]

\* arguments of set_pos: the arr of a Matrix4x1
Positions == {Vec(<<0, 0, -5, 1>>), Vec(<<1, 2, 3, 1>>)}

\* arguments of g_rot and l_rot: an axis and an angle in quarter turns
Axis == {"X", "Y", "Z"}

RotArgs == {<<"X", 1>>, <<"Y", -1>>, <<"Z", 1>>, <<"Z", 2>>, <<"Y", 3>>}

\* arguments of set_rot
SetRotArgs == {<<1, 2, -1>>, <<0, 1, 0>>, <<-1, 1, 1>>, <<0, 0, 0>>}

\* arguments of set_res_and_view_angle: resolution and view angle
Configs == {<<800, 600, "2*atan(1)">>, <<4, 6, "2*atan(1/2)">>}

\* Math.tan(angle / 2) for the view angles of Configs
TanHalf(angle) ==
    CASE angle = "2*atan(1)" -> <<1, 1>>
      [] angle = "2*atan(1/2)" -> <<1, 2>>
      [] OTHER -> NaN

\* homogeneous points, the columns of the batches
PointList == << <<1, 0, 1, 1>>, <<0, 0, 5, 1>>, <<0, 0, 0, 1>>, <<1, 2, 3, 1>>, <<-2, 1, -1, 1>> >>

\* the batch of n columns that starts at point k of PointList
Batch(k, n) == [i \in 0..(4 * n - 1) |->
                  FromInt(PointList[((k + (i \div 4)) % Len(PointList)) + 1][(i % 4) + 1])]

\* arguments of perspective_project and capture: first point of the batch, output mode
ProjectArgs == {<<0, "fresh">>, <<0, "inplace">>, <<0, "scratch">>, <<3, "inplace">>,
                <<2, "wider">>, <<3, "narrower">>}

CaptureArgs == {<<0, "fresh">>, <<1, "inplace">>, <<2, "scratch">>, <<3, "fresh">>,
                <<3, "wider">>}

\* what a caller's scratch buffer holds before the call
Junk(len) == [i \in 0..(len - 1) |-> FromInt(7)]

Points == Matrix("points", 0, 4, NPts)

\* the output argument of capture and perspective_project, by the way it is passed
OutputModes == {"fresh", "scratch", "inplace", "wider", "narrower"}

Output(mode) ==
    CASE mode = "fresh" -> NoMatrix
      [] mode = "scratch" -> Matrix("scratch", 0, 4, NPts)
      [] mode = "inplace" -> Points
      [] mode = "wider" -> Matrix("scratch", 0, 4, NPts + 1)
      [] OTHER -> Matrix("scratch", 0, 4, NPts - 1)

\* the caller's buffers for a call on the batch pts, with the camera's
CallHeap(pts) == ("points" :> pts) @@ ("scratch" :> Junk(4 * (NPts + 1))) @@ CamHeap

\* what the call left in the returned matrix, in the input and in the scratch buffer
Outcome(r0, op, pts, mode) == Bind(r0, LAMBDA r :
    [op |-> op, points |-> pts, mode |-> mode, err |-> r.err,
     ret |-> IF r.err = "none" THEN Arr(r.mem, r.ret) ELSE <<>>,
     ret_cols |-> r.ret.cols,
     points_after |-> r.mem["points"],
     scratch_after |-> r.mem["scratch"]])

----------------------------------------------------------------------------
(* Camera: state after construction, and one action per method *)

undefined_density == [half_px |-> undefined, rad |-> "undefined"]

CameraInit ==
    /\ swp = getI4x4([b \in {"swp"} |-> Zeros(16)], Swp)["swp"]
    /\ inv_rot = getI4x4([b \in {"inv_rot"} |-> Zeros(16)], InvRot)["inv_rot"]
    /\ camera_transform =
         getI4x4([b \in {"camera_transform"} |-> Zeros(16)], CameraTransform)["camera_transform"]
    /\ inv_tra = getI4x4([b \in {"inv_tra"} |-> Zeros(16)], InvTra)["inv_tra"]
    /\ res_x = undefined
    /\ res_y = undefined
    /\ max_px = undefined
    /\ max_view_angle_rad = "undefined"
    /\ px_density = undefined_density
    /\ aspect_ratio = undefined
    /\ e_z = undefined

Init ==
    /\ CameraInit
    /\ heap = <<>>
    /\ last = [op |-> "constructor"]
    /\ nops = 0

Called(l) ==
    /\ nops' = nops + 1
    /\ last' = l
    /\ UNCHANGED heap

set_pos(pos) ==
    /\ nops < MaxOps
    /\ StoreCam(set_pos_mem(CamHeap, pos))
    /\ SensorUnchanged
    /\ Called([op |-> "set_pos", pos |-> pos])

set_rot(x, yp, zpp) ==
    /\ nops < MaxOps
    /\ StoreCam(set_rot_mem(CamHeap, x, yp, zpp).mem)
    /\ SensorUnchanged
    /\ Called([op |-> "set_rot", x |-> x, yp |-> yp, zpp |-> zpp, pre |-> inv_rot])

update_cam_transform ==
    /\ nops < MaxOps
    /\ StoreCam(update_cam_transform_mem(CamHeap).mem)
    /\ SensorUnchanged
    /\ Called([op |-> "update_cam_transform"])

g_rot(A, theta) ==
    /\ nops < MaxOps
    /\ StoreCam(g_rot_mem(CamHeap, A, theta).mem)
    /\ SensorUnchanged
    /\ Called([op |-> "g_rot", A |-> A, theta |-> theta, pre |-> inv_rot])

l_rot(A, theta) ==
    /\ nops < MaxOps
    /\ StoreCam(l_rot_mem(CamHeap, A, theta).mem)
    /\ SensorUnchanged
    /\ Called([op |-> "l_rot", A |-> A, theta |-> theta, pre |-> inv_rot])

set_res_and_view_angle(new_res_x, new_res_y, new_max_view_angle_rad) ==
    /\ nops < MaxOps
    /\ res_x' = FromInt(new_res_x)
    /\ res_y' = FromInt(new_res_y)
    /\ max_px' = Max(res_x', res_y')
    /\ max_view_angle_rad' = new_max_view_angle_rad
    /\ aspect_ratio' = Div(FromInt(new_res_x), FromInt(new_res_y))
    /\ e_z' = Div(FromInt(1), TanHalf(max_view_angle_rad'))
    /\ px_density' = IF Gt(res_x', res_y')
                     THEN [half_px |-> Mul(Half, res_x'), rad |-> max_view_angle_rad']
                     ELSE [half_px |-> Mul(Half, res_y'), rad |-> max_view_angle_rad']
    /\ UNCHANGED <<swp, inv_rot, inv_tra, camera_transform>>
    /\ Called([op |-> "set_res_and_view_angle", res_x |-> new_res_x, res_y |-> new_res_y,
               angle |-> new_max_view_angle_rad])

project(pts, mode) ==
    /\ nops < MaxOps
    /\ \E r \in {perspective_project(CallHeap(pts), Points, Output(mode))} :
        /\ StoreCam(r.mem)
        /\ Called(Outcome(r, "perspective_project", pts, mode))
    /\ SensorUnchanged

Capture(pts, mode) ==
    /\ nops < MaxOps
    /\ \E r \in {capture(CallHeap(pts), Points, Output(mode))} :
        /\ StoreCam(r.mem)
        /\ Called(Outcome(r, "capture", pts, mode) @@ [prev |-> last])
    /\ SensorUnchanged

Next ==
    \/ \E pos \in Positions : set_pos(pos)
    \/ \E a \in SetRotArgs : set_rot(a[1], a[2], a[3])
    \/ update_cam_transform
    \/ \E a \in RotArgs : g_rot(a[1], a[2])
    \/ \E a \in RotArgs : l_rot(a[1], a[2])
    \/ \E c \in Configs : set_res_and_view_angle(c[1], c[2], c[3])
    \/ \E a \in ProjectArgs : project(Batch(a[1], NPts), a[2])
    \/ \E a \in CaptureArgs : Capture(Batch(a[1], NPts), a[2])

Spec == Init /\ [][Next]_vars

----------------------------------------------------------------------------
(* Inputs of the kernel specification: three caller buffers P, Q and R and *)
(* matrices that are views over them.                                      *)

\* elements of each caller buffer
BufLen == 4 * MaxCols

Seeds == {1, 2, 3}

\* small integers, different from one seed to the next
Fill(k, len) == [i \in 0..(len - 1) |-> FromInt(((i * i + k * i + 2 * k) % 7) - 3)]

KernelHeap(k) ==
    ("P" :> Fill(k, BufLen)) @@ ("Q" :> Fill(k + 3, BufLen)) @@ ("R" :> Fill(k + 5, BufLen))

\* the left operand: a Matrix4x4 over the first 16 elements of P
KA == Matrix("P", 0, 4, 4)

\* a Matrix4x4 over elements 4..19 of P: shares twelve elements with KA
POver == Matrix("P", 4, 4, 4)

\* <<A, B, C>> for multiply4x4_4x4
Calls4x4 ==
    {<<KA, B, C>> : B \in {Matrix("Q", 0, 4, 4), POver},
                    C \in {NoMatrix, KA, Matrix("Q", 0, 4, 4), Matrix("R", 0, 4, 4), POver}}

\* the outputs tried with the right operand B of multiply4x4_4xN: none, A, B itself,
\* a view of B's shape at the start of P, and scratch of a column less, as many, one more
Outputs4xN(B) ==
    {NoMatrix, KA, B, Matrix("P", 0, 4, B.cols)}
        \cup {Matrix("R", 0, 4, k) : k \in {B.cols - 1, B.cols, B.cols + 1} \cap 1..MaxCols}

\* <<A, B, C>> for multiply4x4_4xN
Calls4xN ==
    {<<KA, c[1], c[2]>> :
        c \in UNION {{<<B, C>> : C \in Outputs4xN(B)} :
                        B \in {Matrix("Q", 0, 4, n) : n \in 1..MaxCols}
                                \cup {Matrix("P", 4, 4, 2)}}}

\* <<A, B, C>> for multiply4x4_4x1
Calls4x1 ==
    {<<KA, c[1], c[2]>> :
        c \in UNION {{<<B, C>> : C \in {NoMatrix, KA, B, Matrix("R", 0, 4, 1),
                                        Matrix("P", 0, 4, 1)}} :
                        B \in {Matrix("Q", 0, 4, 1), Matrix("Q", 4, 4, 1),
                               Matrix("P", 4, 4, 1)}}}

\* <<A, B, C>> for multiply
CallsGeneric ==
    {<<KA, B, C>> : B \in {Matrix("Q", 0, 4, 4), Matrix("Q", 0, 4, 2)},
                    C \in {NoMatrix, KA, Matrix("Q", 0, 4, 4), Matrix("R", 0, 4, 2)}}

\* <<A, C>> for transpose4x4
CallsTranspose ==
    {<<A, C>> : A \in {KA, Matrix("R", 0, 4, 4), POver},
                C \in {NoMatrix, KA, Matrix("R", 0, 4, 4), Matrix("Q", 0, 4, 4), POver}}

\* <<M, vals>> for set_all
CallsSetAll ==
    {<<M, v>> : M \in {KA, Matrix("Q", 4, 4, 1)},
                v \in {Fill(4, 16), Fill(5, 4), Fill(6, 15)}}

----------------------------------------------------------------------------
(* Kernels: some caller buffers, and one action per exported function *)

KInit ==
    /\ CameraInit
    /\ \E k \in Seeds : heap = KernelHeap(k)
    /\ last = [op |-> "none"]
    /\ nops = 0

\* the call op(A, B, C) gave r on the heap of this state
Returned(op, A, B, C, r0) ==
    \E r \in {r0} :
        /\ heap' = r.mem
        /\ last' = [op |-> op, A |-> A, B |-> B, C |-> C, err |-> r.err, ret |-> r.ret,
                    pre |-> heap]
        /\ nops' = nops + 1
        /\ UNCHANGED camvars

call_multiply4x4_4x4(A, B, C) ==
    /\ nops < MaxCalls
    /\ Returned("multiply4x4_4x4", A, B, C, multiply4x4_4x4(heap, A, B, C))

call_multiply4x4_4xN(A, B, C) ==
    /\ nops < MaxCalls
    /\ Returned("multiply4x4_4xN", A, B, C, multiply4x4_4xN(heap, A, B, C))

call_multiply4x4_4x1(A, B, C) ==
    /\ nops < MaxCalls
    /\ Returned("multiply4x4_4x1", A, B, C, multiply4x4_4x1(heap, A, B, C))

call_multiply(A, B, C) ==
    /\ nops < MaxCalls
    /\ Returned("multiply", A, B, C, multiply(heap, A, B, C))

call_set_all(M, vals) ==
    /\ nops < MaxCalls
    /\ \E r \in {set_all(heap, M, vals)} :
        /\ heap' = r.mem
        /\ last' = [op |-> "set_all", A |-> M, vals |-> vals, err |-> r.err, pre |-> heap]
        /\ nops' = nops + 1
        /\ UNCHANGED camvars

\* a record without its field prev
Flat(l) == [f \in DOMAIN l \ {"prev"} |-> l[f]]

\* transpose4x4(A, C) as one of at most max calls
Transpose(A, C, max) ==
    /\ nops < max
    /\ \E r \in {transpose4x4(heap, A, C)} :
        /\ heap' = [b \in DOMAIN heap |-> r.mem[b]]
        /\ last' = [op |-> "transpose4x4", A |-> A, C |-> C, err |-> r.err, pre |-> heap,
                    prev |-> Flat(last)]
    /\ nops' = nops + 1
    /\ UNCHANGED camvars

KNext ==
    \/ \E c \in Calls4x4 : call_multiply4x4_4x4(c[1], c[2], c[3])
    \/ \E c \in Calls4xN : call_multiply4x4_4xN(c[1], c[2], c[3])
    \/ \E c \in Calls4x1 : call_multiply4x4_4x1(c[1], c[2], c[3])
    \/ \E c \in CallsGeneric : call_multiply(c[1], c[2], c[3])
    \/ \E c \in CallsSetAll : call_set_all(c[1], c[2])
    \/ \E c \in CallsTranspose : Transpose(c[1], c[2], MaxCalls)

KernelSpec == KInit /\ [][KNext]_vars

----------------------------------------------------------------------------
(* Rotations: the builders called on their own *)

\* axis vectors for get_rot_v, as the arr of a Matrix4x1; every norm taken is rational
AxisVectors ==
    {Vec(<<0, 0, 1, 0>>), Vec(<<0, 0, -1, 0>>), Vec(<<0, 0, 2, 1>>),
     Vec(<<0, -3, 4, 0>>), Vec(<<0, 3, 4, 0>>), Vec(<<-12, -3, 4, 0>>), Vec(<<12, -3, 4, 0>>),
     Vec(<<-3, 0, 4, 0>>), Vec(<<0, 1, 0, 0>>), Vec(<<0, -1, 0, 0>>), Vec(<<1, 0, 0, 0>>),
     Vec(<<-2, 0, 0, 1>>), Vec(<<0, 0, 0, 1>>)}

\* angles in quarter turns
Angles == -4..4

\* <<radians, v, C>> for get_rot_v
CallsRotV ==
    {<<q, v, NoMatrix>> : q \in {0, 1, 2}, v \in AxisVectors}
        \cup {<<-1, v, Matrix("R", 0, 4, 4)>> : v \in AxisVectors}

\* <<rad, out>> for get_rot_x, get_rot_y and get_rot_z
CallsRot == {<<q, out>> : q \in Angles, out \in {NoMatrix, Matrix("R", 4, 4, 4)}}

\* the matrices get_rot_v made for itself, as it left them
Locals(mem) ==
    [n \in {"v_unit", "tmp_vec", "R_x", "R_x_i", "R_y", "R_y_i", "cumulative"} |-> mem[n]]

\* the buffers the caller can still reach after a call that left mem
CallerHeap(mem, C) ==
    [b \in DOMAIN heap \cup (IF C = NoMatrix THEN {"new"} ELSE {}) |-> mem[b]]

RInit == KInit

call_get_rot_v(radians, v, C) ==
    /\ nops < MaxCalls
    /\ \E r \in {get_rot_v(radians, Matrix("v", 0, 4, 1), ("v" :> v) @@ heap, C)} :
        /\ heap' = CallerHeap(r.mem, C)
        /\ last' = [op |-> "get_rot_v", radians |-> radians, v |-> v, C |-> C,
                    err |-> r.err, ret |-> Arr(r.mem, r.ret), v_after |-> r.mem["v"],
                    locals |-> Locals(r.mem), pre |-> heap]
    /\ nops' = nops + 1
    /\ UNCHANGED camvars

\* a builder called with an out, or with none: out = new Matrix4x4()
Built(op, rad, out, mem) ==
    /\ heap' = mem
    /\ last' = [op |-> op, rad |-> rad, out |-> out, err |-> "none",
                ret |-> Arr(mem, Default(out, 4)), pre |-> heap]
    /\ nops' = nops + 1
    /\ UNCHANGED camvars

call_get_rot_x(rad, out) ==
    /\ nops < MaxCalls
    /\ Built("get_rot_x", rad, out, get_rot_x(rad, DefaultMem(heap, out, 4), Default(out, 4)))

call_get_rot_y(rad, out) ==
    /\ nops < MaxCalls
    /\ Built("get_rot_y", rad, out, get_rot_y(rad, DefaultMem(heap, out, 4), Default(out, 4)))

call_get_rot_z(rad, out) ==
    /\ nops < MaxCalls
    /\ Built("get_rot_z", rad, out, get_rot_z(rad, DefaultMem(heap, out, 4), Default(out, 4)))

RNext ==
    \/ \E c \in CallsRotV : call_get_rot_v(c[1], c[2], c[3])
    \/ \E c \in CallsRot : call_get_rot_x(c[1], c[2])
    \/ \E c \in CallsRot : call_get_rot_y(c[1], c[2])
    \/ \E c \in CallsRot : call_get_rot_z(c[1], c[2])

RotationSpec == RInit /\ [][RNext]_vars

----------------------------------------------------------------------------
(* Transposes: transpose4x4 called again and again on the caller's matrices *)

TInit == KInit

call_transpose4x4(A, C) == Transpose(A, C, MaxTransposes)

TNext == \E c \in CallsTranspose : call_transpose4x4(c[1], c[2])

TransposeSpec == TInit /\ [][TNext]_vars

----------------------------------------------------------------------------
(* Accessors: Matrix.get and Matrix.set called on views of the caller's buffers *)

\* a Matrix of two rows and three columns over elements 4..9 of Q
Q2x3 == Matrix("Q", 4, 2, 3)

\* <<M, row, col>> for get and set: every index from one below the range to one above
CallsAccess ==
    UNION {{<<M, row, col>> : row \in -1..M.rows, col \in -1..M.cols} : M \in {KA, Q2x3}}

\* val for set
Values == {FromInt(9), Half}

AInit == KInit

call_get(M, row, col) ==
    /\ nops < MaxCalls
    /\ \E r \in {get(heap, M, row, col)} :
        last' = [op |-> "get", M |-> M, row |-> row, col |-> col, err |-> r.err,
                 val |-> r.val, pre |-> heap]
    /\ nops' = nops + 1
    /\ UNCHANGED <<heap, camvars>>

call_set(M, row, col, val) ==
    /\ nops < MaxCalls
    /\ \E r \in {set(heap, M, row, col, val)} :
        /\ heap' = r.mem
        /\ last' = [op |-> "set", M |-> M, row |-> row, col |-> col, err |-> r.err,
                    val |-> val, pre |-> heap]
    /\ nops' = nops + 1
    /\ UNCHANGED camvars

ANext ==
    \/ \E c \in CallsAccess : call_get(c[1], c[2], c[3])
    \/ \E c \in CallsAccess, val \in Values : call_set(c[1], c[2], c[3], val)

AccessSpec == AInit /\ [][ANext]_vars

----------------------------------------------------------------------------
(* Reference mathematics for the camera claims *)

\* the product of two 4x4 matrices given as column-major arrays
MatProd(X, Y) ==
    [i \in 0..15 |->
        LET r == i % 4
            c == i \div 4
        IN  Add(Add(Add(Mul(X[r], Y[4 * c]), Mul(X[r + 4], Y[4 * c + 1])),
                    Mul(X[r + 8], Y[4 * c + 2])),
                Mul(X[r + 12], Y[4 * c + 3]))]

Tmp == Matrix("tmp", 0, 4, 4)

TmpHeap == [b \in {"tmp"} |-> Zeros(16)]

\* the matrices get_rot_x, get_rot_y and get_rot_z return for a new out
Rx(q) == get_rot_x(q, TmpHeap, Tmp)["tmp"]

Ry(q) == get_rot_y(q, TmpHeap, Tmp)["tmp"]

Rz(q) == get_rot_z(q, TmpHeap, Tmp)["tmp"]

R(A, q) == CASE A = "X" -> Rx(q) [] A = "Y" -> Ry(q) [] OTHER -> Rz(q)

\* column j of a column-major array with four rows
Col(a, j) == <<a[4 * j], a[4 * j + 1], a[4 * j + 2], a[4 * j + 3]>>

----------------------------------------------------------------------------
(* C1 *)

\* C1: at every capture call the camera_transform that is applied equals
\* inv_rot . inv_tra for the current inv_rot and inv_tra, whatever setters and
\* rotation operators were called before it.
C1_NoStaleTransform ==
    last.op = "capture" => camera_transform = MatProd(inv_rot, inv_tra)

----------------------------------------------------------------------------
(* C2 - C5 *)

Kernels == {"multiply4x4_4x4", "multiply4x4_4xN", "multiply4x4_4x1"}

\* the output of the last kernel call: the C passed, or the matrix made for it
LastC == Default(last.C, last.B.cols)

\* the views X and Y have no element in common
Disjoint(X, Y) ==
    \/ X.buf # Y.buf
    \/ X.off + length(X) <= Y.off
    \/ Y.off + length(Y) <= X.off

\* A times B for the values a heap holds: element r of column c is the sum over k of
\* A[r, k] * B[k, c]
Product(m, A, B) ==
    [i \in 0..(length(B) - 1) |->
        LET r == i % 4
            c == i \div 4
        IN  Add(Add(Add(Mul(Rd(m, A, r), Rd(m, B, 4 * c)),
                        Mul(Rd(m, A, r + 4), Rd(m, B, 4 * c + 1))),
                    Mul(Rd(m, A, r + 8), Rd(m, B, 4 * c + 2))),
                Mul(Rd(m, A, r + 12), Rd(m, B, 4 * c + 3)))]

\* the kernel op called with no output argument: what it returns
Fresh(op, m, A, B) ==
    LET r == CASE op = "multiply4x4_4x4" -> multiply4x4_4x4(m, A, B, NoMatrix)
               [] op = "multiply4x4_4xN" -> multiply4x4_4xN(m, A, B, NoMatrix)
               [] OTHER -> multiply4x4_4x1(m, A, B, NoMatrix)
    IN  Arr(r.mem, r.ret)

\* C2: a call of multiply4x4_4xN, multiply4x4_4x4 or multiply4x4_4x1 whose C is the
\* same view as A fails with the aliasing error and has written no element: every
\* buffer holds after the call what it held before.
C2_AliasRejected ==
    (last.op \in Kernels /\ same_view(last.A, last.C)) =>
        (last.err = "alias" /\ heap = last.pre)

C2_Witness ==
    /\ last.op = "multiply4x4_4x4"
    /\ same_view(last.A, last.C)
    /\ last.err = "alias"
    /\ heap = last.pre

\* C3: a kernel call with B = C, for a B that is not the same view as A, succeeds and
\* leaves in that buffer A times the pre-call B, column by column: the values the same
\* call returns in a new output matrix.
C3_InPlace ==
    (last.op \in Kernels /\ ~same_view(last.A, last.B) /\ same_view(last.B, last.C)) =>
        /\ last.err = "none"
        /\ Arr(heap, last.B) = Product(last.pre, last.A, last.B)
        /\ Arr(heap, last.B) = Fresh(last.op, last.pre, last.A, last.B)

\* column j of a matrix of four rows, as a Matrix4x1 over the same buffer
ColumnView(B, j) == Matrix(B.buf, B.off + 4 * j, 4, 1)

\* C4: what a kernel returns in an output that shares no element with A (a new matrix,
\* scratch, or B itself) is what the generic multiply returns for the same A and B, and
\* column j of the result of multiply4x4_4xN is what multiply4x4_4x1 returns for A and
\* column j of B.
C4_KernelsAreProduct ==
    (last.op \in Kernels /\ last.err = "none" /\ Disjoint(last.A, last.ret)) =>
        LET g == multiply(last.pre, last.A, last.B, NoMatrix)
        IN  /\ g.err = "none"
            /\ Arr(heap, last.ret) = Arr(g.mem, g.ret)
            /\ last.op = "multiply4x4_4xN" =>
                 \A j \in 0..(last.B.cols - 1) :
                    Arr(heap, ColumnView(last.ret, j)) =
                        Fresh("multiply4x4_4x1", last.pre, last.A, ColumnView(last.B, j))

C4_Witness ==
    /\ last.op = "multiply4x4_4xN"
    /\ last.err = "none"
    /\ last.B.cols = 3
    /\ same_view(last.B, last.ret)
    /\ Disjoint(last.A, last.ret)
    /\ Arr(heap, last.ret) = Product(last.pre, last.A, last.B)
    /\ Arr(heap, last.ret) # Arr(last.pre, last.B)

\* C5 as stated: multiply4x4_4xN with B.cols() different from C.cols() fails with the
\* dimension-mismatch error and leaves every buffer as it was; with equal column counts
\* and a C that is not the same view as A it does not fail.
C5_DimensionError ==
    last.op = "multiply4x4_4xN" =>
        /\ last.B.cols # LastC.cols => (last.err = "cols" /\ heap = last.pre)
        /\ (last.B.cols = LastC.cols /\ ~same_view(last.A, LastC)) => last.err = "none"

\* C5, amended: multiply4x4_4xN with B.cols() different from C.cols() fails and leaves
\* every buffer as it was, with the aliasing error when C is the same view as A and with
\* the dimension-mismatch error otherwise; with equal column counts and a C that is not
\* the same view as A it does not fail.
C5_DimensionOrAliasError ==
    last.op = "multiply4x4_4xN" =>
        /\ last.B.cols # LastC.cols =>
             /\ last.err = (IF same_view(last.A, LastC) THEN "alias" ELSE "cols")
             /\ heap = last.pre
        /\ (last.B.cols = LastC.cols /\ ~same_view(last.A, LastC)) => last.err = "none"

C5_Witness ==
    /\ last.op = "multiply4x4_4xN"
    /\ last.B.cols = 3
    /\ last.C = Matrix("R", 0, 4, 2)
    /\ last.err = "cols"
    /\ heap = last.pre

----------------------------------------------------------------------------
(* C6 - C9 *)

\* C6: after set_rot(x, y, z) from any reachable state, inv_rot is
\* Rx(-x) . Ry(-y) . Rz(-z), whatever the orientation was before.
C6_SetRot ==
    last.op = "set_rot" =>
        inv_rot = MatProd(Rx(-last.x), MatProd(Ry(-last.yp), Rz(-last.zpp)))

\* set_rot with three non-zero angles on a camera that an earlier call had rotated
C6_Witness ==
    /\ last.op = "set_rot"
    /\ last.pre # I4x4
    /\ last.x # 0 /\ last.yp # 0 /\ last.zpp # 0
    /\ inv_rot # last.pre

\* C7: g_rot(axis, angle) replaces inv_rot by R(axis, angle) . inv_rot_old.
C7_GRotLeft ==
    last.op = "g_rot" => inv_rot = MatProd(R(last.A, last.theta), last.pre)

\* g_rot on an orientation that does not commute with the rotation
C7_Witness ==
    /\ last.op = "g_rot"
    /\ MatProd(R(last.A, last.theta), last.pre) # MatProd(last.pre, R(last.A, last.theta))
    /\ inv_rot = MatProd(R(last.A, last.theta), last.pre)

\* C8: l_rot(axis, angle) replaces inv_rot by inv_rot_old . R(axis, angle), the
\* product being taken with the inv_rot of before the call although swp is both
\* the right operand and the destination of the multiply.
C8_LRotRight ==
    last.op = "l_rot" =>
        inv_rot = MatProd(last.pre, R(last.A, last.theta))

\* l_rot on an orientation that does not commute with the rotation
C8_Witness ==
    /\ last.op = "l_rot"
    /\ MatProd(R(last.A, last.theta), last.pre) # MatProd(last.pre, R(last.A, last.theta))
    /\ inv_rot = MatProd(last.pre, R(last.A, last.theta))

\* the camera's heap as it was before the last rotation call, as far as the
\* call read it (the call overwrites swp before reading it)
HeapBefore == [CamHeap EXCEPT !["inv_rot"] = last.pre]

\* C9: from an identity inv_rot, l_rot(axis, angle) and g_rot(axis, angle) leave
\* the same inv_rot.
C9_LocalIsGlobalFromIdentity ==
    /\ (last.op = "l_rot" /\ last.pre = I4x4) =>
           inv_rot = g_rot_mem(HeapBefore, last.A, last.theta).mem["inv_rot"]
    /\ (last.op = "g_rot" /\ last.pre = I4x4) =>
           inv_rot = l_rot_mem(HeapBefore, last.A, last.theta).mem["inv_rot"]

\* l_rot by a quarter turn on a camera whose inv_rot is the identity
C9_Witness ==
    /\ last.op = "l_rot"
    /\ last.pre = I4x4
    /\ last.theta % 2 = 1
    /\ inv_rot # I4x4

----------------------------------------------------------------------------
(* C10 *)

\* what the claim says column <<x, y, z, w>> is mapped to, for the arguments
\* of the last set_res_and_view_angle
Projected(p) ==
    LET ez == Div(FromInt(1), TanHalf(max_view_angle_rad))
        maxpx == Max(res_x, res_y)
    IN  <<Add(Mul(Half, res_x), Mul(Mul(Mul(Half, maxpx), Div(ez, p[3])), p[1])),
          Add(Mul(Half, res_y), Mul(Mul(Mul(Half, maxpx), Div(ez, p[3])), p[2])),
          Div(ez, p[3]),
          FromInt(1)>>

\* C10: after set_res_and_view_angle, perspective_project maps every input
\* column with z # 0 to (0.5 res_x + 0.5 max_px (e_z/z) x,
\* 0.5 res_y + 0.5 max_px (e_z/z) y, e_z/z, 1), column by column, whether the
\* output is a new matrix, a scratch matrix or the input itself.
C10_Project ==
    (last.op = "perspective_project" /\ max_view_angle_rad # "undefined") =>
        \A j \in 0..(NPts - 1) :
            (j < last.ret_cols /\ Col(last.points, j)[3] # FromInt(0)) =>
                Col(last.ret, j) = Projected(Col(last.points, j))

\* resolution 800x600 with e_z = 1: (1, 0, 1, 1) is mapped to (800, 300, 1, 1),
\* in place, and the next column (z = 5) to fractions
C10_Witness ==
    /\ last.op = "perspective_project"
    /\ last.mode = "inplace"
    /\ res_x = FromInt(800) /\ res_y = FromInt(600) /\ e_z = FromInt(1)
    /\ Col(last.points, 0) = <<FromInt(1), FromInt(0), FromInt(1), FromInt(1)>>
    /\ Col(last.points_after, 0) = <<FromInt(800), FromInt(300), FromInt(1), FromInt(1)>>
    /\ Col(last.points_after, 1) = <<FromInt(400), FromInt(300), <<1, 5>>, FromInt(1)>>

----------------------------------------------------------------------------
(* C11 *)

\* the batch pts seen from p: p subtracted from the first three rows of every column
Shifted(pts, p) ==
    [i \in DOMAIN pts |-> IF i % 4 < 3 THEN Add(pts[i], Neg(p[i % 4])) ELSE pts[i]]

\* what capture returns for pts on a camera of this sensor that was never moved or turned
UntranslatedCapture(pts) ==
    LET m == [CallHeap(pts) EXCEPT !["inv_rot"] = I4x4, !["inv_tra"] = I4x4,
                                   !["camera_transform"] = I4x4]
        r == capture(m, Points, NoMatrix)
    IN  Arr(r.mem, r.ret)

\* C11: on a configured camera with identity rotation, a capture that directly follows
\* set_pos(p) returns for every world point w the pixel an un-translated camera returns
\* for w - p (so position (0,0,-5,1) and world point (0,0,0,1) give the pixel centre).
C11_TranslatedCapture ==
    (/\ last.op = "capture"
     /\ last.err = "none"
     /\ last.prev.op = "set_pos"
     /\ inv_rot = I4x4
     /\ max_view_angle_rad # "undefined") =>
        \A j \in 0..(NPts - 1) :
            Col(last.ret, j) = Col(UntranslatedCapture(Shifted(last.points, last.prev.pos)), j)

----------------------------------------------------------------------------
(* C12 *)

\* the product of a 4x4 matrix and a column of four, both as arrays
MatVec(X, u) ==
    [i \in 0..3 |-> Add(Add(Add(Mul(X[i], u[0]), Mul(X[i + 4], u[1])), Mul(X[i + 8], u[2])),
                        Mul(X[i + 12], u[3]))]

Zero == FromInt(0)

\* an axis that is not the zero vector, not parallel to Z and not parallel to X
NonDegenerate(v) ==
    /\ ~(v[0] = Zero /\ v[1] = Zero)
    /\ ~(v[1] = Zero /\ v[2] = Zero)

\* M = Ry . Rx and its inverse, as get_rot_v left them in its own matrices
AlignM == MatProd(last.locals["R_y"], last.locals["R_x"])

AlignMInv == MatProd(last.locals["R_x_i"], last.locals["R_y_i"])

\* C12: for a non-degenerate axis v, get_rot_v(angle, v) returns M^-1 . Rz(angle) . M
\* with M = Ry . Rx, M maps the normalised axis to (0, 0, 1), the returned matrix
\* leaves v fixed, and a zero angle returns the identity.
C12_RotationAboutAxis ==
    (last.op = "get_rot_v" /\ NonDegenerate(last.v)) =>
        /\ last.ret = MatProd(AlignMInv, MatProd(Rz(last.radians), AlignM))
        /\ MatProd(AlignMInv, AlignM) = I4x4
        /\ \A i \in 0..2 :
              MatVec(AlignM, last.locals["v_unit"])[i] = FromInt(IF i = 2 THEN 1 ELSE 0)
        /\ MatVec(last.ret, last.v) = last.v
        /\ last.radians = 0 => last.ret = I4x4

----------------------------------------------------------------------------
(* C13 *)

\* the matrix a transpose4x4 call leaves its result in
Dest(l) == IF l.C = NoMatrix \/ same_view(l.A, l.C) THEN l.A ELSE l.C

\* the call recorded in l transposed in place, or into a C that shares no element with A
InPlaceOrApart(l) == l.C = NoMatrix \/ same_view(l.A, l.C) \/ Disjoint(l.A, l.C)

\* C13: a transpose4x4 of the result of a transpose4x4 of A leaves the elements A had
\* before the two calls, whether each call is in place (C omitted or the same view as A)
\* or into a C apart from its A; and one call in place leaves in A what the call into
\* a separate C leaves in C: element i is the pre-call element Transposed(i).
C13_TransposeTwice ==
    (last.op = "transpose4x4" /\ InPlaceOrApart(last)) =>
        /\ last.err = "none"
        /\ Arr(heap, Dest(last)) =
             Arr(transpose4x4(TmpHeap @@ last.pre, last.A, Tmp).mem, Tmp)
        /\ \A i \in 0..15 : Arr(heap, Dest(last))[i] = Arr(last.pre, last.A)[Transposed(i)]
        /\ (last.prev.op = "transpose4x4" /\ InPlaceOrApart(last.prev)
              /\ last.A = Dest(last.prev)) =>
                Arr(heap, Dest(last)) = Arr(last.prev.pre, last.prev.A)

C13_Witness ==
    /\ last.op = "transpose4x4"
    /\ last.prev.op = "transpose4x4"
    /\ last.prev.A = KA /\ last.prev.C = NoMatrix
    /\ last.A = KA /\ last.C = KA
    /\ Arr(last.pre, KA) # Arr(heap, KA)
    /\ Arr(heap, KA) = Arr(last.prev.pre, KA)

----------------------------------------------------------------------------
(* C14 *)

Builders == {"get_rot_x", "get_rot_y", "get_rot_z"}

\* what the builder op returns for the angle q in a new matrix
BuilderOf(op, q) == CASE op = "get_rot_x" -> Rx(q) [] op = "get_rot_y" -> Ry(q) [] OTHER -> Rz(q)

\* C14: for each of get_rot_x, get_rot_y and get_rot_z and every angle t (a whole number
\* of quarter turns, 0 included), the matrix built for t times the matrix built for -t,
\* and the matrix built for -t times the matrix built for t, are the identity.
C14_RotationInverse ==
    last.op \in Builders =>
        /\ MatProd(last.ret, BuilderOf(last.op, -last.rad)) = I4x4
        /\ MatProd(BuilderOf(last.op, -last.rad), last.ret) = I4x4

C14_Witness ==
    /\ last.op = "get_rot_y"
    /\ last.rad = 1
    /\ last.out = Matrix("R", 4, 4, 4)
    /\ last.ret # I4x4
    /\ last.ret # BuilderOf("get_rot_y", -1)
    /\ MatProd(last.ret, BuilderOf("get_rot_y", -1)) = I4x4

----------------------------------------------------------------------------
(* C15 *)

\* the 4x4 translation by (x, y, z), column-major
Translation(x, y, z) == [I4x4 EXCEPT ![12] = x, ![13] = y, ![14] = z]

\* C15: in every state inv_tra is a pure translation (identity 3x3 block, bottom row
\* (0, 0, 0, 1)); after construction it is the translation by zero, after set_pos(p) the
\* translation by (-p0, -p1, -p2), and no other operation changes it: its translation
\* column is that of the most recent set_pos.
C15_PureTranslation ==
    /\ [](/\ inv_tra = Translation(inv_tra[12], inv_tra[13], inv_tra[14])
          /\ last.op = "constructor" => inv_tra = Translation(Zero, Zero, Zero)
          /\ last.op = "set_pos" =>
               inv_tra = Translation(Neg(last.pos[0]), Neg(last.pos[1]), Neg(last.pos[2])))
    /\ [][last'.op # "set_pos" => inv_tra' = inv_tra]_vars

C15_Witness ==
    /\ last.op = "l_rot"
    /\ inv_tra = Translation(FromInt(-1), FromInt(-2), FromInt(-3))
    /\ inv_rot # I4x4

----------------------------------------------------------------------------
(* C16 *)

\* the flat index of element (row, col) of the matrix of the last call
FlatIndex == last.row + last.col * last.M.rows

\* C16: get(row, col) and set(row, col, val) fail with the out-of-range error exactly
\* when row is outside [0, R) or col outside [0, C); a get changes nothing and returns
\* the element at flat index row + col*R; a failing set changes nothing; a succeeding
\* set changes only the element at that flat index, which a get(row, col) then returns.
C16_GetSetRange ==
    last.op \in {"get", "set"} =>
        /\ last.err = "range" <=>
             (last.row \notin 0..(last.M.rows - 1) \/ last.col \notin 0..(last.M.cols - 1))
        /\ last.err \in {"range", "none"}
        /\ (last.op = "get" /\ last.err = "none") =>
             (last.val = last.pre[last.M.buf][last.M.off + FlatIndex] /\ heap = last.pre)
        /\ (last.op = "set" /\ last.err = "range") => heap = last.pre
        /\ (last.op = "set" /\ last.err = "none") =>
             /\ heap = [last.pre EXCEPT ![last.M.buf][last.M.off + FlatIndex] = last.val]
             /\ get(heap, last.M, last.row, last.col) = [err |-> "none", val |-> last.val]

C16_Witness ==
    /\ last.op = "set"
    /\ last.M = Q2x3 /\ last.row = 1 /\ last.col = 2
    /\ last.err = "none"
    /\ heap["Q"][9] = Half
    /\ last.pre["Q"][9] # Half

----------------------------------------------------------------------------
(* C17 *)

\* the norm get_rot_v divides by in the first arccos argument: that of the normalised
\* axis with its x set to 0
YZNorm == Hypot(Zero, last.locals["v_unit"][1], last.locals["v_unit"][2])

NonZero(v) == \E i \in 0..2 : v[i] # Zero

ParallelToZ(v) == NonZero(v) /\ v[0] = Zero /\ v[1] = Zero

ParallelToX(v) == NonZero(v) /\ v[1] = Zero /\ v[2] = Zero

HasNaN(a) == \E i \in DOMAIN a : a[i] = NaN

\* C17 as stated: in get_rot_v an axis parallel to Z has a YZ projection of norm zero,
\* so that the arccos argument divides by zero and the result holds NaN; an axis that is
\* not parallel to Z does not divide by zero.
C17_ZAxisDegenerate ==
    (last.op = "get_rot_v" /\ NonZero(last.v)) =>
        /\ ParallelToZ(last.v) => (YZNorm = Zero /\ HasNaN(last.ret))
        /\ ~ParallelToZ(last.v) => (YZNorm # Zero /\ ~HasNaN(last.ret))

\* C17, amended: in get_rot_v an axis parallel to X has a YZ projection of norm zero, so
\* that the first arccos argument is 0/0 and every element of the result is NaN; a
\* non-zero axis that is not parallel to X (one parallel to Z included) does not divide
\* by zero at either arccos and the result holds no NaN.
C17_XAxisDegenerate ==
    (last.op = "get_rot_v" /\ NonZero(last.v)) =>
        /\ ParallelToX(last.v) => (YZNorm = Zero /\ \A i \in 0..15 : last.ret[i] = NaN)
        /\ ~ParallelToX(last.v) =>
             /\ YZNorm # Zero
             /\ Hypot(last.locals["tmp_vec"][0], last.locals["tmp_vec"][1],
                      last.locals["tmp_vec"][2]) = FromInt(1)
             /\ ~HasNaN(last.ret)

C17_Witness ==
    /\ last.op = "get_rot_v"
    /\ last.v = Vec(<<1, 0, 0, 0>>)
    /\ last.radians = 1
    /\ YZNorm = Zero
    /\ \A i \in 0..15 : last.ret[i] = NaN

----------------------------------------------------------------------------
(* C18 *)

\* C18: every call of multiply4x4_4x4, multiply4x4_4xN, multiply4x4_4x1 or transpose4x4
\* that returns without an error leaves in its output the product of the pre-call A and
\* B (the transpose of the pre-call A), whatever memory the views share: an output that
\* overlaps A without being the same view included.
C18_SharedMemoryHandled ==
    /\ (last.op \in Kernels /\ last.err = "none") =>
          Arr(heap, last.ret) = Product(last.pre, last.A, last.B)
    /\ (last.op = "transpose4x4" /\ last.err = "none") =>
          \A i \in 0..15 : Arr(heap, Dest(last))[i] = Arr(last.pre, last.A)[Transposed(i)]

----------------------------------------------------------------------------
(* C19 *)

\* C19: perspective_project on an output whose number of columns differs from the
\* input's writes no element of the output: the caller's buffer under the output
\* holds after the call what it held before.
C19_ColumnGuard ==
    (last.op = "perspective_project" /\ last.ret_cols # NPts) =>
        last.scratch_after = Junk(4 * (NPts + 1))

----------------------------------------------------------------------------
(* C20 *)

\* element (r, c) of X . transpose(X) for the upper-left 3x3 block of X
BlockTimesTranspose(X, r, c) ==
    Add(Add(Mul(X[r], X[c]), Mul(X[r + 4], X[c + 4])), Mul(X[r + 8], X[c + 8]))

\* the determinant of the upper-left 3x3 block of X
Det3(X) ==
    Add(Add(Mul(X[0], Add(Mul(X[5], X[10]), Neg(Mul(X[9], X[6])))),
            Neg(Mul(X[4], Add(Mul(X[1], X[10]), Neg(Mul(X[9], X[2])))))),
        Mul(X[8], Add(Mul(X[1], X[6]), Neg(Mul(X[5], X[2])))))

\* the fourth row of X is (0, 0, 0, 1)
BottomRow(X) == <<X[3], X[7], X[11], X[15]>> = <<Zero, Zero, Zero, FromInt(1)>>

\* the points of PointList, all with fourth coordinate 1
UnitPoints == {Vec(PointList[k]) : k \in 1..Len(PointList)}

\* C20: in every state reached by set_rot, g_rot and l_rot with quarter-turn angles,
\* inv_rot has fourth row and fourth column (0, 0, 0, 1), its upper-left block R has
\* R . transpose(R) = I and determinant 1; and the camera_transform left by
\* update_cam_transform has bottom row (0, 0, 0, 1) and maps every point with fourth
\* coordinate 1 to a point with fourth coordinate 1.
C20_ProperRotation ==
    /\ BottomRow(inv_rot)
    /\ <<inv_rot[12], inv_rot[13], inv_rot[14]>> = <<Zero, Zero, Zero>>
    /\ \A r, c \in 0..2 :
          BlockTimesTranspose(inv_rot, r, c) = FromInt(IF r = c THEN 1 ELSE 0)
    /\ Det3(inv_rot) = FromInt(1)
    /\ last.op = "update_cam_transform" =>
          /\ BottomRow(camera_transform)
          /\ \A p \in UnitPoints : MatVec(camera_transform, p)[3] = FromInt(1)

\* update_cam_transform on a moved camera whose orientation, composed of several
\* rotations, is no rotation about X, Y or Z
C20_Witness ==
    /\ last.op = "update_cam_transform"
    /\ inv_tra # I4x4
    /\ \A A \in Axis, q \in 0..3 : inv_rot # R(A, q)
    /\ camera_transform = MatProd(inv_rot, inv_tra)
    /\ \E p \in UnitPoints : MatVec(camera_transform, p) # p

----------------------------------------------------------------------------
(* C21 *)

\* C21: set_rot, g_rot and l_rot leave inv_tra as it was; set_pos leaves inv_rot as it
\* was; none of the four changes res_x, res_y, max_px, e_z or px_density;
\* set_res_and_view_angle leaves inv_rot, inv_tra and camera_transform as they were; and
\* capture(points, scratch) with a scratch matrix of its own changes neither the points
\* nor any field of the camera.
C21_FrameEffects ==
    [][/\ last'.op \in {"set_rot", "g_rot", "l_rot"} => inv_tra' = inv_tra
       /\ last'.op = "set_pos" => inv_rot' = inv_rot
       /\ last'.op \in {"set_rot", "g_rot", "l_rot", "set_pos"} =>
             UNCHANGED <<res_x, res_y, max_px, e_z, px_density>>
       /\ last'.op = "set_res_and_view_angle" =>
             UNCHANGED <<inv_rot, inv_tra, camera_transform>>
       /\ (last'.op = "capture" /\ last'.mode \in {"scratch", "wider"}) =>
             /\ last'.points_after = last'.points
             /\ UNCHANGED camvars]_vars

\* a configured, rotated camera has captured points into a scratch matrix, which now
\* holds the capture while the points are what they were
C21_Witness ==
    /\ last.op = "capture"
    /\ last.mode = "scratch"
    /\ last.err = "none"
    /\ last.prev.op \in {"set_rot", "g_rot", "l_rot"}
    /\ max_view_angle_rad # "undefined"
    /\ inv_rot # I4x4
    /\ last.scratch_after # Junk(4 * (NPts + 1))
    /\ last.ret # last.points
    /\ last.points_after = last.points

====
